---- MODULE Spec2Model ----
(***************************************************************************)
(* A model of toy.cpp: the scanner (gettok), the recursive-descent parser  *)
(* with operator-precedence climbing, and the driver (main, MainLoop).     *)
(* Characters and tokens are C ints, as in the source: a character is its  *)
(* ASCII code, a token is a negative enum value or a character code.       *)
(***************************************************************************)
EXTENDS Integers, Sequences, FiniteSets, TLC

\* ------------------------------------------------------------------------
\* Bounds of the model
\* ------------------------------------------------------------------------

\* The longest input, in lexemes, of the enumerated input family.
MaxWords == 3

\* ------------------------------------------------------------------------
\* enum Token and the character literals of the source
\* ------------------------------------------------------------------------

tok_eof == -1
tok_def == -2
tok_extern == -3
tok_identifier == -4
tok_number == -5

EOF == -1
Space == 32
Newline == 10
CarriageReturn == 13
Hash == 35
LParen == 40
RParen == 41
Star == 42
Plus == 43
Comma == 44
Minus == 45
Dot == 46
Semicolon == 59
Less == 60

\* <ctype.h>, "C" locale, on the ints getchar returns
isspace(c) == c \in {9, 10, 11, 12, 13, 32}
isdigit(c) == c \in 48..57
isalpha(c) == c \in 65..90 \/ c \in 97..122
isalnum(c) == isalpha(c) \/ isdigit(c)
isascii(c) == c \in 0..127

\* The keywords compared against IdentifierStr
Str_def == <<100, 101, 102>>
Str_extern == <<101, 120, 116, 101, 114, 110>>

\* ------------------------------------------------------------------------
\* Inputs: character streams built from lexemes
\* ------------------------------------------------------------------------

W_foo == <<102, 111, 111>>
W_1 == <<49>>
W_2 == <<50>>
W_3 == <<51>>
W_4 == <<52>>

Lexemes ==
    { Str_def, Str_extern, W_foo, W_1, <<LParen>>, <<RParen>>, <<Comma>>,
      <<Semicolon>>, <<Plus>>, <<Star>>, <<Space>>, <<Hash>>, <<Newline>>,
      <<255>> }

RECURSIVE Cat(_)
Cat(ws) == IF ws = <<>> THEN <<>> ELSE Head(ws) \o Cat(Tail(ws))

WordInputs ==
    UNION { { Cat(ws) : ws \in [1..n -> Lexemes] } : n \in 0..MaxWords }

\* The inputs the specification's testable properties name, and their
\* neighbours.
ExampleInputs ==
    { Cat(<<W_1, <<Plus>>, W_2, <<Star>>, W_3>>),
      Cat(<<W_1, <<Minus>>, W_2, <<Minus>>, W_3>>),
      Cat(<<W_1, <<Plus>>, W_2, <<Less>>, W_3, <<Star>>, W_4>>),
      Cat(<<W_1, <<Plus>>, W_2, <<Star>>, W_3, <<Semicolon>>>>),
      Cat(<<W_foo, <<LParen>>, W_1, <<Comma>>, <<Space>>, W_2, <<Plus>>, W_3,
            <<RParen>>>>),
      Cat(<<<<LParen>>, W_1, <<Plus>>, W_2, <<RParen>>, <<Star>>, W_3>>),
      Cat(<<<<Hash>>, <<Space>>, W_foo, <<Newline>>, W_1>>),
      Cat(<<Str_def, <<Space>>, W_foo, <<LParen>>>>),
      Cat(<<Str_def, <<Space>>, W_foo, <<LParen>>, W_foo, <<Space>>, W_foo,
            <<RParen>>, W_1, <<Plus>>, W_foo>>),
      Cat(<<Str_def, <<Space>>, W_foo, <<LParen>>, <<RParen>>, W_1, <<Plus>>>>),
      Cat(<<Str_extern, <<Space>>, W_foo, <<LParen>>, W_foo, <<RParen>>,
            <<Semicolon>>>>),
      Cat(<<W_1, <<Dot>>, W_2, <<Dot>>, W_3>>),
      Cat(<<W_1, <<Semicolon>>, W_2>>) }

Inputs == WordInputs \cup ExampleInputs

\* ------------------------------------------------------------------------
\* State
\* ------------------------------------------------------------------------

VARIABLES
    input,            \* the characters stdin delivers
    pos,              \* how many of them getchar has delivered
    LastChar,         \* gettok's static lookahead character
    IdentifierStr,    \* payload of the last identifier token
    NumVal,           \* payload of the last number token
    CurTok,           \* the parser's current token
    BinopPrecedence,  \* std::map<char, int>
    heap,             \* the AST nodes allocated with new and not deleted
    stderr,           \* what was printed on stderr
    stdout,           \* what was printed on stdout
    toks,             \* history: the tokens gettok returned to getNextToken
    halt,             \* "run", or how the process stopped making progress
    pc,               \* where main is: "start", "loop", "done", "stuck"
    ret               \* history: the last top-level parse call and its result

vars ==
    <<input, pos, LastChar, IdentifierStr, NumVal, CurTok, BinopPrecedence,
      heap, stderr, stdout, toks, halt, pc, ret>>

\* What an infinite loop without side effects (undefined behaviour) can be
\* compiled to at toy.cpp:55-59: the loop kept ("spin"), the loop removed so
\* that gettok calls itself with the same LastChar for ever ("recurse"), or
\* the whole branch removed as unreachable ("skip").
CommentLoopOutcomes == {"spin", "recurse", "skip"}

\* The program state the scanner and parser routines thread through, with
\* ub the outcome of the undefined behaviour in this execution.
Cur(o) ==
    [ input |-> input, pos |-> pos, LastChar |-> LastChar,
      IdentifierStr |-> IdentifierStr, NumVal |-> NumVal, CurTok |-> CurTok,
      BinopPrecedence |-> BinopPrecedence, heap |-> heap, stderr |-> stderr,
      stdout |-> stdout, toks |-> toks, halt |-> halt, ub |-> o,
      errTok |-> 0, errN |-> -1 ]

Running(s) == s.halt = "run"

\* ------------------------------------------------------------------------
\* Sequencing
\* ------------------------------------------------------------------------

\* K applied to the value of v: v is evaluated once, before K, as a
\* statement is executed before the statements that use its result.
Then(v, K(_)) == CHOOSE r \in {K(x) : x \in {v}} : TRUE

\* ------------------------------------------------------------------------
\* Scanner
\* ------------------------------------------------------------------------

\* LastChar = getchar()
ReadChar(s) ==
    IF s.pos < Len(s.input)
    THEN [s EXCEPT !.LastChar = s.input[s.pos + 1], !.pos = s.pos + 1]
    ELSE [s EXCEPT !.LastChar = EOF]

\* while (isspace(LastChar)) LastChar = getchar();
RECURSIVE SkipSpace(_)
SkipSpace(s) == IF isspace(s.LastChar) THEN Then(ReadChar(s), SkipSpace) ELSE s

\* while (isalnum(LastChar = getchar())) IdentifierStr += LastChar;
RECURSIVE ScanIdentifier(_)
ScanIdentifier(s) ==
    LET Test(t) ==
            IF isalnum(t.LastChar)
            THEN Then([t EXCEPT !.IdentifierStr = Append(@, t.LastChar)],
                      ScanIdentifier)
            ELSE t
    IN  Then(ReadChar(s), Test)

\* The value of a string of decimal digits.
RECURSIVE DigitsValue(_)
DigitsValue(ds) ==
    IF ds = <<>> THEN 0
    ELSE 10 * DigitsValue(SubSeq(ds, 1, Len(ds) - 1)) + (ds[Len(ds)] - 48)

\* The length of the longest prefix of cs made of digits.
RECURSIVE DigitRun(_)
DigitRun(cs) ==
    IF cs # <<>> /\ isdigit(Head(cs)) THEN 1 + DigitRun(Tail(cs)) ELSE 0

\* A decimal value mant / 10^exp without trailing fraction zeros.
RECURSIVE Normalize(_, _)
Normalize(mant, exp) ==
    IF exp > 0 /\ mant % 10 = 0 THEN Normalize(mant \div 10, exp - 1)
    ELSE [mant |-> mant, exp |-> exp]

\* strtod on a string of digits and '.': the longest prefix
\* digits ['.' digits] with at least one digit is converted, and when there
\* is no such prefix the value is 0.
strtod(NumStr) ==
    LET i == DigitRun(NumStr)
        rest == SubSeq(NumStr, i + 1, Len(NumStr))
        j == IF rest # <<>> /\ Head(rest) = Dot THEN DigitRun(Tail(rest)) ELSE 0
        digits == SubSeq(NumStr, 1, i) \o SubSeq(rest, 2, j + 1)
    IN  Normalize(DigitsValue(digits), j)

\* do { NumStr += LastChar; LastChar = getchar(); }
\* while (isdigit(LastChar) || LastChar == '.');
\* NumVal = strtod(NumStr.c_str(), 0);
RECURSIVE ScanNumber(_, _)
ScanNumber(s, NumStr) ==
    LET Test(n, t) ==
            IF isdigit(t.LastChar) \/ t.LastChar = Dot
            THEN ScanNumber(t, n)
            ELSE [t EXCEPT !.NumVal = strtod(n)]
        Read(n) == Then(ReadChar(s), LAMBDA t : Test(n, t))
    IN  Then(Append(NumStr, s.LastChar), Read)

\* CharToken with ThisChar declared char (signed) instead of int.
CharToken_signedChar(s) ==
    IF s.LastChar = EOF
    THEN [s |-> s, tok |-> tok_eof]
    ELSE [s |-> ReadChar(s),
          tok |-> IF s.LastChar >= 128 THEN s.LastChar - 256 ELSE s.LastChar]

\* The last statements of gettok: the end of the stream, or the character.
CharToken(s) ==
    IF s.LastChar = EOF
    THEN [s |-> s, tok |-> tok_eof]
    ELSE [s |-> ReadChar(s), tok |-> s.LastChar]

\* if (IdentifierStr == "def") ... return tok_identifier;
IdentifierToken(s) ==
    [s |-> s,
     tok |-> IF s.IdentifierStr = Str_def THEN tok_def
             ELSE IF s.IdentifierStr = Str_extern THEN tok_extern
             ELSE tok_identifier]

\* if (LastChar == '#') { do {} while (LastChar != EOF && LastChar != '\n'
\* && LastChar != '\r'); if (LastChar != EOF) return gettok(); }
\* The body of the loop reads nothing, so LastChar stays '#': the loop does
\* not end, and neither does the recursion when the loop is compiled away.
CommentToken(s) ==
    IF s.ub = "spin" THEN [s |-> [s EXCEPT !.halt = "hang"], tok |-> s.CurTok]
    ELSE IF s.ub = "recurse"
    THEN [s |-> [s EXCEPT !.halt = "overflow"], tok |-> s.CurTok]
    ELSE CharToken(s)

\* The number branch of gettok
NumberToken(s) == [s |-> s, tok |-> tok_number]

\* gettok after the whitespace loop
ScanToken(s) ==
    IF isalpha(s.LastChar)
    THEN Then(ScanIdentifier([s EXCEPT !.IdentifierStr = <<s.LastChar>>]),
              IdentifierToken)
    ELSE IF isdigit(s.LastChar) \/ s.LastChar = Dot
    THEN Then(ScanNumber(s, <<>>), NumberToken)
    ELSE IF s.LastChar = Hash THEN CommentToken(s)
    ELSE CharToken(s)

\* static int gettok(): the token, and the state it leaves
gettok(s) == Then(SkipSpace(s), ScanToken)

\* CurTok = (the token gettok returned)
SetCurTok(r) ==
    IF Running(r.s)
    THEN [r.s EXCEPT !.CurTok = r.tok, !.toks = Append(@, r.tok)]
    ELSE r.s

\* static int getNextToken()
getNextToken(s) == IF ~Running(s) THEN s ELSE Then(gettok(s), SetCurTok)

\* ------------------------------------------------------------------------
\* AST nodes
\* ------------------------------------------------------------------------

NULL == [kind |-> "null"]
NumberExprAST(val) == [kind |-> "Number", Val |-> val]
VariableExprAST(name) == [kind |-> "Variable", Name |-> name]
BinaryExprAST(op, lhs, rhs) == [kind |-> "Binary", Op |-> op, LHS |-> lhs, RHS |-> rhs]
CallExprAST(callee, args) == [kind |-> "Call", Callee |-> callee, Args |-> args]
PrototypeAST(name, args) == [kind |-> "Prototype", Name |-> name, Args |-> args]
FunctionAST(proto, body) == [kind |-> "Function", Proto |-> proto, Body |-> body]

\* What a parse routine returns: the node (NULL for a null pointer) and the
\* state it leaves.
R(s, node) == [s |-> s, node |-> node]

\* new T(...): the node is allocated; the source holds no delete.
New(s, node) ==
    IF Running(s) THEN R([s EXCEPT !.heap = Append(@, node)], node) ELSE R(s, node)

\* Error, ErrorP, ErrorF: print the message, return a null pointer. errTok
\* and errN remember the current token and how many tokens had been scanned.
Error(s, Str) ==
    IF ~Running(s) THEN R(s, NULL)
    ELSE R([s EXCEPT !.stderr = Append(@, "Error " \o Str),
                     !.errTok = s.CurTok, !.errN = Len(s.toks)], NULL)

\* ------------------------------------------------------------------------
\* Parser
\* ------------------------------------------------------------------------

\* static ExprAST *ParseNumber()
ParseNumber(s) ==
    LET Consume(Result) ==
            Then(getNextToken(Result.s), LAMBDA t : R(t, Result.node))
    IN  Then(New(s, NumberExprAST(s.NumVal)), Consume)

\* BinopPrecedence[c]: std::map::operator[] inserts a value-initialised
\* entry for a key that is absent.
MapIndex(m, c) ==
    IF c \in DOMAIN m THEN m ELSE [x \in DOMAIN m \cup {c} |-> IF x = c THEN 0 ELSE m[x]]

\* static int GetTokPrecedence()
GetTokPrecedence(s) ==
    LET Lookup(m, TokPrec) ==
            [s |-> [s EXCEPT !.BinopPrecedence = m],
             prec |-> IF TokPrec < 0 THEN -1 ELSE TokPrec]
        Index(m) == Lookup(m, m[s.CurTok])
    IN  IF ~isascii(s.CurTok) THEN [s |-> s, prec |-> -1]
        ELSE Then(MapIndex(s.BinopPrecedence, s.CurTok), Index)

RECURSIVE ParsePrimary(_)
RECURSIVE ParseBinOpRHS(_, _, _)
RECURSIVE ParseExpression(_)
RECURSIVE ParseParenExpr(_)
RECURSIVE ParseIdentifierExpr(_)
RECURSIVE ParseArgs(_, _)

\* ParsePrimary scanning past the token it does not know once it has
\* reported it.
ParsePrimary_consuming(s) ==
    IF ~Running(s) THEN R(s, NULL)
    ELSE IF s.CurTok = tok_identifier THEN ParseIdentifierExpr(s)
    ELSE IF s.CurTok = tok_number THEN ParseNumber(s)
    ELSE IF s.CurTok = LParen THEN ParseParenExpr(s)
    ELSE Then(Error(s, "unknown token when expecting an expression"),
              LAMBDA e : R(getNextToken(e.s), NULL))

\* static ExprAST *ParsePrimary()
ParsePrimary(s) ==
    IF ~Running(s) THEN R(s, NULL)
    ELSE IF s.CurTok = tok_identifier THEN ParseIdentifierExpr(s)
    ELSE IF s.CurTok = tok_number THEN ParseNumber(s)
    ELSE IF s.CurTok = LParen THEN ParseParenExpr(s)
    ELSE Error(s, "unknown token when expecting an expression")

\* static ExprAST *ParseBinOpRHS(int ExprPrec, ExprAST *LHS): one turn of
\* while (1), then the next.
ParseBinOpRHS(s, ExprPrec, LHS) ==
    LET \* the next turn, with LHS = new BinaryExprAST(BinOp, LHS, RHS)
        Loop(b) == ParseBinOpRHS(b.s, ExprPrec, b.node)
        \* if (RHS == 0) return 0; LHS = new ...
        Combine(BinOp, rhs) ==
            IF rhs.node = NULL THEN R(rhs.s, NULL)
            ELSE Then(New(rhs.s, BinaryExprAST(BinOp, LHS, rhs.node)), Loop)
        \* int NextPrec = GetTokPrecedence(); if (TokPrec < NextPrec) ...
        Climb(TokPrec, BinOp, p, n) ==
            IF TokPrec < n.prec
            THEN Then(ParseBinOpRHS(n.s, TokPrec + 1, p.node),
                      LAMBDA rhs : Combine(BinOp, rhs))
            ELSE Combine(BinOp, R(n.s, p.node))
        \* ExprAST *RHS = ParsePrimary(); if (!RHS) return 0;
        AfterPrimary(TokPrec, BinOp, p) ==
            IF p.node = NULL THEN R(p.s, NULL)
            ELSE Then(GetTokPrecedence(p.s),
                      LAMBDA n : Climb(TokPrec, BinOp, p, n))
        \* int TokPrec = GetTokPrecedence(); if (TokPrec < ExprPrec) return LHS;
        \* int BinOp = CurTok; getNextToken();
        Turn(g) ==
            IF g.prec < ExprPrec THEN R(g.s, LHS)
            ELSE Then(Then(getNextToken(g.s), ParsePrimary),
                      LAMBDA p : AfterPrimary(g.prec, g.s.CurTok, p))
    IN  IF ~Running(s) THEN R(s, NULL) ELSE Then(GetTokPrecedence(s), Turn)

\* static ExprAST *ParseExpression()
ParseExpression(s) ==
    LET AfterPrimary(p) ==
            IF p.node = NULL THEN R(p.s, NULL) ELSE ParseBinOpRHS(p.s, 0, p.node)
    IN  Then(ParsePrimary(s), AfterPrimary)

\* static ExprAST *ParseParenExpr()
ParseParenExpr(s) ==
    LET AfterExpression(v) ==
            IF v.node = NULL THEN R(v.s, NULL)
            ELSE IF v.s.CurTok # RParen THEN Error(v.s, "expected ')'")
            ELSE Then(getNextToken(v.s), LAMBDA t : R(t, v.node))
    IN  Then(Then(getNextToken(s), ParseExpression), AfterExpression)

\* std::vector<ExprAST*> Args, as ParseArgs returns it
ArgVector(Args) == [kind |-> "vector", Args |-> Args]

\* The while (1) of ParseIdentifierExpr, with the Args collected so far:
\* the vector when the loop breaks, NULL when the routine returns 0.
ParseArgs(s, Args) ==
    LET AfterArg(a) ==
            IF a.node = NULL THEN R(a.s, NULL)
            ELSE IF a.s.CurTok = RParen THEN R(a.s, ArgVector(Append(Args, a.node)))
            ELSE IF a.s.CurTok # Comma
            THEN Error(a.s, "Expected ')' or ',' in argument list")
            ELSE Then(getNextToken(a.s),
                      LAMBDA t : ParseArgs(t, Append(Args, a.node)))
    IN  Then(ParseExpression(s), AfterArg)

\* static ExprAST *ParseIdentifierExpr()
ParseIdentifierExpr(s) ==
    LET IdName == s.IdentifierStr
        \* getNextToken(); // eat the )   return new CallExprAST(IdName, Args);
        AfterArgs(args) ==
            IF ~Running(args.s) \/ args.node = NULL THEN R(args.s, NULL)
            ELSE Then(getNextToken(args.s),
                      LAMBDA t : New(t, CallExprAST(IdName, args.node.Args)))
        \* std::vector<ExprAST*> Args; if (CurTok != ')') { while (1) ... }
        Arguments(s2) ==
            IF s2.CurTok # RParen
            THEN Then(ParseArgs(s2, <<>>), AfterArgs)
            ELSE AfterArgs(R(s2, ArgVector(<<>>)))
        \* if (CurTok != '(') return new VariableExprAST(IdName);
        AfterName(s1) ==
            IF ~Running(s1) THEN R(s1, NULL)
            ELSE IF s1.CurTok # LParen THEN New(s1, VariableExprAST(IdName))
            ELSE Then(getNextToken(s1), Arguments)
    IN  Then(getNextToken(s), AfterName)

\* while (getNextToken() == tok_identifier) ArgNames.push_back(IdentifierStr);
RECURSIVE ParseArgNames(_, _)
ParseArgNames(s, ArgNames) ==
    LET AfterToken(t) ==
            IF Running(t) /\ t.CurTok = tok_identifier
            THEN ParseArgNames(t, Append(ArgNames, t.IdentifierStr))
            ELSE R(t, ArgVector(ArgNames))
    IN  Then(getNextToken(s), AfterToken)

\* static PrototypeAST *ParsePrototype()
ParsePrototype(s) ==
    LET FnName == s.IdentifierStr
        \* if (CurTok != ')') return ErrorP(...); getNextToken(); return new ...
        AfterArgNames(a) ==
            IF ~Running(a.s) THEN R(a.s, NULL)
            ELSE IF a.s.CurTok # RParen THEN Error(a.s, "Expected ')' in protoype")
            ELSE Then(getNextToken(a.s),
                      LAMBDA t : New(t, PrototypeAST(FnName, a.node.Args)))
        \* if (CurTok != '(') return ErrorP(...);
        AfterName(s1) ==
            IF ~Running(s1) THEN R(s1, NULL)
            ELSE IF s1.CurTok # LParen THEN Error(s1, "Expected '(' in prototype")
            ELSE Then(ParseArgNames(s1, <<>>), AfterArgNames)
    IN  IF ~Running(s) THEN R(s, NULL)
        ELSE IF s.CurTok # tok_identifier
        THEN Error(s, "Expected function name in prototype")
        ELSE Then(getNextToken(s), AfterName)

\* static FunctionAST *ParseDefintion()
ParseDefintion(s) ==
    LET \* if (ExprAST *E = ParseExpression()) return new FunctionAST(Proto, E);
        AfterBody(Proto, E) ==
            IF E.node # NULL THEN New(E.s, FunctionAST(Proto.node, E.node))
            ELSE R(E.s, NULL)
        \* if (Proto == 0) return 0;
        AfterPrototype(Proto) ==
            IF Proto.node = NULL THEN R(Proto.s, NULL)
            ELSE Then(ParseExpression(Proto.s), LAMBDA E : AfterBody(Proto, E))
    IN  Then(Then(getNextToken(s), ParsePrototype), AfterPrototype)

\* static PrototypeAST *ParseExtern()
ParseExtern(s) == Then(getNextToken(s), ParsePrototype)

\* static FunctionAST *ParseTopLevelExpr()
ParseTopLevelExpr(s) ==
    LET Wrap(E, Proto) == New(Proto.s, FunctionAST(Proto.node, E.node))
        AfterExpression(E) ==
            IF E.node # NULL
            THEN Then(New(E.s, PrototypeAST(<<>>, <<>>)),
                      LAMBDA Proto : Wrap(E, Proto))
            ELSE R(E.s, NULL)
    IN  Then(ParseExpression(s), AfterExpression)

\* ------------------------------------------------------------------------
\* Driver: main and MainLoop
\* ------------------------------------------------------------------------

NoCall ==
    [ routine |-> "none", node |-> NULL, returned |-> FALSE, tokAtReturn |-> 0,
      nAtReturn |-> 0, errTok |-> 0, errN |-> -1, nBefore |-> 0,
      heapBefore |-> 0 ]

\* The record of a top-level parse call: from state s, returning r.
Call(routine, s, r) ==
    [ routine |-> routine, node |-> r.node, returned |-> Running(r.s),
      tokAtReturn |-> r.s.CurTok, nAtReturn |-> Len(r.s.toks),
      errTok |-> r.s.errTok, errN |-> r.s.errN, nBefore |-> Len(s.toks),
      heapBefore |-> Len(s.heap) ]

\* The program state s becomes the state, main at nextpc unless the process
\* has stopped making progress.
Commit(s, nextpc, call) ==
    /\ input' = s.input
    /\ pos' = s.pos
    /\ LastChar' = s.LastChar
    /\ IdentifierStr' = s.IdentifierStr
    /\ NumVal' = s.NumVal
    /\ CurTok' = s.CurTok
    /\ BinopPrecedence' = s.BinopPrecedence
    /\ heap' = s.heap
    /\ stderr' = s.stderr
    /\ stdout' = s.stdout
    /\ toks' = s.toks
    /\ halt' = s.halt
    /\ pc' = IF Running(s) THEN nextpc ELSE "stuck"
    /\ ret' = call

\* fprintf(stderr, "ready> ");
Prompt(s) == [s EXCEPT !.stderr = Append(@, "ready> ")]

\* fprintf(stdout, ...)
Say(s, Str) == [s EXCEPT !.stdout = Append(@, Str)]

\* Handle without the getNextToken that follows a failed parse.
Handle_noResync(r, parsed, failed) ==
    IF ~Running(r.s) THEN r.s
    ELSE IF r.node # NULL THEN Say(r.s, parsed)
    ELSE Say(r.s, failed)

\* The body of HandleDefintion, HandleExtern and HandleTopLevelExpression,
\* given what the parse routine returned.
Handle(r, parsed, failed) ==
    IF ~Running(r.s) THEN r.s
    ELSE IF r.node # NULL THEN Say(r.s, parsed)
    ELSE Then(Say(r.s, failed), getNextToken)

\* The static initialisers: LastChar = ' ', the others zero or empty. Nothing
\* has been read: what stdin holds is settled when main starts to read it.
Init ==
    /\ input = <<>>
    /\ pos = 0
    /\ LastChar = Space
    /\ IdentifierStr = <<>>
    /\ NumVal = [mant |-> 0, exp |-> 0]
    /\ CurTok = 0
    /\ BinopPrecedence = [c \in {} |-> 0]
    /\ heap = <<>>
    /\ stderr = <<>>
    /\ stdout = <<>>
    /\ toks = <<>>
    /\ halt = "run"
    /\ pc = "start"
    /\ ret = NoCall

\* The four BinopPrecedence[...] = ... of main
SeedPrecedence(s) ==
    [s EXCEPT !.BinopPrecedence =
        [c \in {Less, Plus, Minus, Star} |->
            IF c = Less THEN 10 ELSE IF c = Star THEN 40 ELSE 20]]

\* The program reading inp from stdin.
OnInput(s, inp) == [s EXCEPT !.input = inp]

\* main, up to the call of MainLoop
Main ==
    /\ pc = "start"
    /\ \E inp \in Inputs, o \in CommentLoopOutcomes :
       \E s \in {Prompt(SeedPrecedence(OnInput(Cur(o), inp)))} :
       \E t \in {getNextToken(s)} :
          Commit(t, "loop", NoCall)

\* MainLoop, case tok_eof: return (and main returns 0)
LoopEof ==
    /\ pc = "loop"
    /\ CurTok = tok_eof
    /\ \E o \in CommentLoopOutcomes :
       \E s \in {Prompt(Cur(o))} :
          Commit(s, "done", NoCall)

\* MainLoop, case ';'
LoopSemicolon ==
    /\ pc = "loop"
    /\ CurTok = Semicolon
    /\ \E o \in CommentLoopOutcomes :
       \E s \in {Prompt(Cur(o))} :
       \E t \in {getNextToken(s)} :
          Commit(t, "loop", NoCall)

\* MainLoop, case tok_def: HandleDefintion()
HandleDefintion ==
    /\ pc = "loop"
    /\ CurTok = tok_def
    /\ \E o \in CommentLoopOutcomes :
       \E s \in {Prompt(Cur(o))} :
       \E r \in {ParseDefintion(s)} :
       \E t \in {Handle(r, "Parsed a function defintion",
                        "Error failed to parse defintion")} :
          Commit(t, "loop", Call("ParseDefintion", s, r))

\* MainLoop, case tok_extern: HandleExtern()
HandleExtern ==
    /\ pc = "loop"
    /\ CurTok = tok_extern
    /\ \E o \in CommentLoopOutcomes :
       \E s \in {Prompt(Cur(o))} :
       \E r \in {ParseExtern(s)} :
       \E t \in {Handle(r, "Parsed an extern", "Error failed to parse extern")} :
          Commit(t, "loop", Call("ParseExtern", s, r))

\* MainLoop, default: HandleTopLevelExpression()
HandleTopLevelExpression ==
    /\ pc = "loop"
    /\ CurTok \notin {tok_eof, Semicolon, tok_def, tok_extern}
    /\ \E o \in CommentLoopOutcomes :
       \E s \in {Prompt(Cur(o))} :
       \E r \in {ParseTopLevelExpr(s)} :
       \E t \in {Handle(r, "Parsed a top level expression",
                        "Error failed to parse top level expression")} :
          Commit(t, "loop", Call("ParseTopLevelExpr", s, r))

\* One turn of the while (1) of MainLoop
MainLoop ==
    \/ LoopEof
    \/ LoopSemicolon
    \/ HandleDefintion
    \/ HandleExtern
    \/ HandleTopLevelExpression

Next == Main \/ MainLoop

Spec == Init /\ [][Next]_vars

\* A process in MainLoop takes the next turn of the loop: the program is
\* single-threaded and every routine runs to completion.
FairSpec == Spec /\ WF_vars(MainLoop)

\* ------------------------------------------------------------------------
\* What the claims speak of
\* ------------------------------------------------------------------------

SeededOps == {Less, Plus, Minus, Star}

\* The precedence table as the specification gives it.
RefPrec(op) == IF op = Less THEN 10 ELSE IF op = Star THEN 40 ELSE 20

NoHash == \A i \in DOMAIN input : input[i] # Hash

\* The current token of s and the tokens that follow it, with their
\* payloads, up to the end token.
RECURSIVE Upcoming(_)
Upcoming(s) ==
    LET t == [tok |-> s.CurTok, IdentifierStr |-> s.IdentifierStr, NumVal |-> s.NumVal]
    IN  IF s.CurTok = tok_eof \/ ~Running(s) THEN <<t>>
        ELSE <<t>> \o Then(getNextToken(s), Upcoming)

Atom(t) == t.tok \in {tok_number, tok_identifier}

AtomNode(t) ==
    IF t.tok = tok_number THEN NumberExprAST(t.NumVal)
    ELSE VariableExprAST(t.IdentifierStr)

\* The index of the last operand of the longest atom (OP atom)* that starts
\* at ts[i].
RECURSIVE ChainEnd(_, _)
ChainEnd(ts, i) ==
    IF i + 2 <= Len(ts) /\ ts[i + 1].tok \in SeededOps /\ Atom(ts[i + 2])
    THEN ChainEnd(ts, i + 2)
    ELSE i

\* ts[i..e] is a whole expression atom (OP atom)*: nothing after it
\* continues it.
WholeChain(ts, i, e) ==
    /\ e < Len(ts)
    /\ ts[e + 1].tok \notin SeededOps
    /\ ~(ts[e].tok = tok_identifier /\ ts[e + 1].tok = LParen)

\* The tree the precedence and associativity rules give ts[i..e]: the root
\* is the last of the operators of lowest precedence.
RECURSIVE RefTree(_, _, _)
RefTree(ts, i, e) ==
    IF i >= e THEN AtomNode(ts[i])
    ELSE LET ops == {k \in (i + 1)..(e - 1) : (k - i) % 2 = 1}
             root == CHOOSE k \in ops : \A m \in ops :
                         \/ RefPrec(ts[k].tok) < RefPrec(ts[m].tok)
                         \/ RefPrec(ts[k].tok) = RefPrec(ts[m].tok) /\ k >= m
         IN  BinaryExprAST(ts[root].tok, RefTree(ts, i, root - 1),
                           RefTree(ts, root + 1, e))

\* The argument list that starts at ts[i], after the '(' : whether it has
\* the form (chain (',' chain)*)? ')', its trees, and the index of the ')'.
RECURSIVE RefArgs(_, _, _)
RefArgs(ts, i, acc) ==
    IF i > Len(ts) THEN [ok |-> FALSE, args |-> acc, close |-> i]
    ELSE IF ts[i].tok = RParen /\ acc = <<>> THEN [ok |-> TRUE, args |-> acc, close |-> i]
    ELSE IF ~Atom(ts[i]) THEN [ok |-> FALSE, args |-> acc, close |-> i]
    ELSE LET e == ChainEnd(ts, i)
             more == Append(acc, RefTree(ts, i, e))
         IN  IF ~WholeChain(ts, i, e) THEN [ok |-> FALSE, args |-> acc, close |-> i]
             ELSE IF ts[e + 1].tok = RParen
             THEN [ok |-> TRUE, args |-> more, close |-> e + 1]
             ELSE IF ts[e + 1].tok = Comma /\ e + 2 <= Len(ts) /\ Atom(ts[e + 2])
             THEN RefArgs(ts, e + 2, more)
             ELSE [ok |-> FALSE, args |-> acc, close |-> i]

\* The characters of cs outside comments: a comment runs from '#' up to,
\* not including, the end of the line.
RECURSIVE StripComments(_, _)
StripComments(cs, inComment) ==
    IF cs = <<>> THEN <<>>
    ELSE IF inComment
    THEN IF Head(cs) \in {Newline, CarriageReturn}
         THEN <<Head(cs)>> \o StripComments(Tail(cs), FALSE)
         ELSE StripComments(Tail(cs), TRUE)
    ELSE IF Head(cs) = Hash THEN StripComments(Tail(cs), TRUE)
    ELSE <<Head(cs)>> \o StripComments(Tail(cs), FALSE)

\* The program state before main, reading inp.
Fresh(inp) ==
    [ input |-> inp, pos |-> 0, LastChar |-> Space, IdentifierStr |-> <<>>,
      NumVal |-> [mant |-> 0, exp |-> 0], CurTok |-> 0,
      BinopPrecedence |-> [c \in {} |-> 0], heap |-> <<>>, stderr |-> <<>>,
      stdout |-> <<>>, toks |-> <<>>, halt |-> "run", ub |-> "spin",
      errTok |-> 0, errN |-> -1 ]

\* The tokens of inp, the end token last.
Tokens(inp) == Then(getNextToken(Fresh(inp)), Upcoming)

\* The i-th token gettok returns on inp.
TokenAt(ts, i) == IF i <= Len(ts) THEN ts[i].tok ELSE tok_eof

AtDispatch == pc = "loop" /\ NoHash

BuiltBinaryOps == {heap[i].Op : i \in {k \in DOMAIN heap : heap[k].kind = "Binary"}}

\* ------------------------------------------------------------------------
\* The claims
\* ------------------------------------------------------------------------

\* C1: GetTokPrecedence returns -1 for every token that is not a key of the
\* precedence table, and 10, 20, 20, 40 for '<', '+', '-', '*'.
C1_PrecedenceOrMinusOne ==
    pc = "loop" =>
        GetTokPrecedence(Cur("spin")).prec =
            (IF CurTok \in SeededOps THEN RefPrec(CurTok) ELSE -1)

\* C2: on a top-level token sequence atom (OP atom)* with OP a seeded
\* operator, ended by ';' or the end of the input, ParseExpression returns
\* the tree the precedence and associativity rules give, operands in input
\* order, and stops at the token after it.
C2_ExpressionTreeShape ==
    AtDispatch /\ Atom(Upcoming(Cur("spin"))[1]) =>
        LET ts == Upcoming(Cur("spin"))
            e == ChainEnd(ts, 1)
            r == ParseExpression(Cur("spin"))
        IN  WholeChain(ts, 1, e) /\ ts[e + 1].tok \in {Semicolon, tok_eof} =>
                /\ r.node = RefTree(ts, 1, e)
                /\ r.s.CurTok = ts[e + 1].tok

\* C3: on identifier '(' arguments ')' ParseIdentifierExpr returns the
\* CallExpr with that callee and exactly the argument trees, in input
\* order, reports no error, and leaves the token after ')' current.
C3_CallWithArguments ==
    AtDispatch /\ CurTok = tok_identifier =>
        LET ts == Upcoming(Cur("spin"))
            a == RefArgs(ts, 3, <<>>)
            r == ParseIdentifierExpr(Cur("spin"))
        IN  Len(ts) >= 3 /\ ts[2].tok = LParen /\ a.ok =>
                /\ r.node = CallExprAST(IdentifierStr, a.args)
                /\ r.s.CurTok = ts[a.close + 1].tok
                /\ r.s.stderr = stderr

\* C4: on '(' expression ')' ParsePrimary returns exactly the tree of the
\* inner expression and leaves the token after ')' current.
C4_ParenthesisedExpression ==
    AtDispatch /\ CurTok = LParen =>
        LET ts == Upcoming(Cur("spin"))
            e == ChainEnd(ts, 2)
            r == ParsePrimary(Cur("spin"))
        IN  Len(ts) >= 3 /\ Atom(ts[2]) /\ WholeChain(ts, 2, e)
              /\ ts[e + 1].tok = RParen =>
                /\ r.node = RefTree(ts, 2, e)
                /\ r.s.CurTok = ts[e + 2].tok

\* C5: comments are transparent: every call of gettok returns, and the
\* tokens it returns are those of the input with its comments removed.
C5_CommentsTransparent ==
    /\ halt = "run"
    /\ \A i \in DOMAIN toks :
          toks[i] = TokenAt(Tokens(StripComments(input, FALSE)), i)

\* C6: no BinaryExpr is ever built with ';' as its operator, and on E1 ; E2 the first parse ends with ';' current and the driver
\* reports two top-level expressions.
C6_SemicolonSeparates ==
    /\ Semicolon \notin BuiltBinaryOps
    /\ AtDispatch \/ (pc = "done" /\ NoHash) =>
          LET ts == Tokens(input)
              e1 == ChainEnd(ts, 1)
              e2 == ChainEnd(ts, e1 + 2)
          IN  /\ Atom(ts[1]) /\ WholeChain(ts, 1, e1)
              /\ ts[e1 + 1].tok = Semicolon
              /\ e1 + 2 <= Len(ts) /\ Atom(ts[e1 + 2]) /\ WholeChain(ts, e1 + 2, e2)
              /\ ts[e2 + 1].tok = tok_eof
              =>
              /\ ret.routine = "ParseTopLevelExpr" /\ ret.nBefore = 1 =>
                     ret.node # NULL /\ ret.tokAtReturn = Semicolon
              /\ pc = "done" =>
                     stdout = << "Parsed a top level expression",
                                 "Parsed a top level expression" >>

\* C7: when a top-level parse routine returns failure, every node allocated
\* during the call has been released.
C7_FailureReleasesNodes ==
    ret.routine # "none" /\ ret.returned /\ ret.node = NULL =>
        Len(heap) = ret.heapBefore

\* C8: a parse routine that fails returns null with the offending token
\* still current: no token is scanned between the detection of the error
\* and the return; the Handle routine then calls getNextToken exactly once
\* and the loop dispatches on the token that call returned.
C8_FailureLeavesOffendingToken ==
    ret.routine # "none" /\ ret.returned /\ ret.node = NULL =>
        /\ ret.errN = ret.nAtReturn
        /\ ret.errTok = ret.tokAtReturn
        /\ halt = "run" =>
              /\ Len(toks) = ret.nAtReturn + 1
              /\ pc = "loop"
              /\ CurTok = toks[Len(toks)]

\* ParseDefintion failed on a token that is not the end token, after it had
\* consumed def, and the driver has resynchronised.
C8_Witness ==
    /\ ret.routine = "ParseDefintion" /\ ret.returned /\ ret.node = NULL
    /\ ret.nAtReturn > ret.nBefore
    /\ ret.errTok # tok_eof
    /\ halt = "run"
    /\ Len(toks) = ret.nAtReturn + 1

\* C9: once gettok has returned the end token, every later call returns the
\* end token.
C9_EndTokenPermanent ==
    \A i, j \in DOMAIN toks : i < j /\ toks[i] = tok_eof => toks[j] = tok_eof

\* gettok was called again after it had returned the end token, at the end
\* of the stream, and returned the end token.
C9_Witness ==
    /\ Len(toks) >= 3
    /\ toks[Len(toks) - 1] = tok_eof
    /\ toks[Len(toks)] = tok_eof
    /\ toks[1] # tok_eof
    /\ pos = Len(input)
    /\ LastChar = EOF

\* C10: on an input without '#', every turn of MainLoop that does not
\* return consumes at least one token, and MainLoop returns.
C10_LoopTerminates ==
    /\ (pc = "loop" /\ NoHash) ~> (pc = "done")
    /\ [][pc = "loop" /\ pc' = "loop" => Len(toks') > Len(toks)]_vars

\* MainLoop has returned after turns that parsed, failed and skipped ';'.
C10_Witness ==
    /\ pc = "done"
    /\ NoHash
    /\ Len(stdout) >= 2
    /\ \E i \in DOMAIN stdout : stdout[i] = "Parsed a top level expression"
    /\ \E i \in DOMAIN stdout : stdout[i] = "Error failed to parse top level expression"

====
